---- MODULE Spec2Model ----
(***************************************************************************)
(* Whitelist Merkle engine of the ArcGenesis front end (hook useMerkle):   *)
(* address normalisation, sorted-pair tree construction, proof derivation  *)
(* and client-side verification.                                           *)
(*                                                                         *)
(* keccak256 is modelled as an ideal (collision-free) hash: a digest is    *)
(* the term of its preimage.  <<"L", a>> is keccak256 of the 20 packed     *)
(* bytes of address a, <<"N", l, r>> is keccak256 of the 64 bytes l || r,  *)
(* <<"Z">> is the 32 zero bytes.  The byte order of digests, which         *)
(* Buffer.compare reads, is fixed by the variable keccak.                  *)
(***************************************************************************)
EXTENDS Integers, Sequences, FiniteSets, TLC

\* ---------------------------------------------------------------- bounds
NumAddr == 3        \* distinct 20-byte accounts in the universe
MaxLen == 3         \* longest address list / text handed to a load

Accounts == 1..NumAddr

\* ------------------------------------------------------- address strings
\* A raw entry is what a caller passes where an address is expected.
\*   checksum : "0x" + 40 hex digits in EIP-55 mixed case (canonical form)
\*   lower    : "0x" + 40 lowercase hex digits
\*   noprefix : 40 lowercase hex digits without "0x"
\*   padded   : the lower form surrounded by whitespace
\*   badsum   : "0x" + 40 mixed-case hex digits failing the EIP-55 checksum
\*   garbage  : a non-empty string that is no 20-byte hex value
\*   empty    : the empty string
\*   blank    : a string of whitespace only
\*   nonstring: a value that is not a string (null, a number)
Str(k, a) == [k |-> k, a |-> a]

ValidKinds == {"checksum", "lower", "noprefix"}

AddrStrings ==
    {Str(k, a) : k \in ValidKinds \cup {"padded", "badsum"}, a \in Accounts}

Garbage == Str("garbage", 0)
EmptyStr == Str("empty", 0)
BlankStr == Str("blank", 0)
NonString == Str("nonstring", 0)

\* every string value (text tokens are strings)
Strings == AddrStrings \cup {Garbage, EmptyStr, BlankStr}

\* every value an array element or an address argument can be
RawEntries == Strings \cup {NonString}

\* String.prototype.trim; a non-string has no trim method (the call throws)
TrimOk(e) == e.k # "nonstring"

trim(e) ==
    CASE e.k = "padded" -> Str("lower", e.a)
      [] e.k = "blank" -> EmptyStr
      [] OTHER -> e

\* ethers.getAddress: accepts /^(0x)?[0-9a-fA-F]{40}$/ whose mixed-case
\* checksum, if any, is right; throws on everything else
getAddressOk(e) == e.k \in ValidKinds

\* its result, the checksummed form
getAddress(e) == Str("checksum", e.a)

toLowerCase(e) ==
    CASE e.k \in {"checksum", "lower", "badsum"} -> Str("lower", e.a)
      [] OTHER -> e

\* ----------------------------------------------------------------- bytes
ZeroBytes == <<"Z">>

\* keccak256(abi.encodePacked(address)) / solidityPackedKeccak256(['address'])
LeafHash(a) == <<"L", a>>

\* ethers.keccak256 of the 64-byte concatenation left || right
Keccak2(left, right) == <<"N", left, right>>

\* possible byte orders of the digests
KeccakOrders == {[leafAsc |-> b, leafFirst |-> b] : b \in BOOLEAN}

\* ZeroHash / '0x' + buf.toString('hex'): the lowercase 0x-prefixed hex string
\* of a byte string.  A hex string is kept as its digits and their letter case.
toHexString(bytes) == [hex |-> bytes, upper |-> FALSE]

\* Buffer.from(s.slice(2), 'hex'): drops two characters and decodes the hex
\* digits, whatever their letter case
bufferFromHex(s) == s.hex

ZeroHash == toHexString(ZeroBytes)

\* ----------------------------------------------------------------- state
VARIABLES
    whitelist,   \* useState([]): the raw entries the last load accepted
    isLoading,   \* useState(false)
    error,       \* useState(null): "null" or the message kind
    keccak,      \* the byte order of the digests (an element of KeccakOrders)
    treeData,    \* useMemo(..., [whitelist]): recomputed when whitelist is set
    hashFault,   \* TRUE while hashing throws (no Buffer global, corrupted state)
    ret,         \* the last call made on the hook and what it returned
    probe,       \* the last direct application of a tree function, with its result
    signer,          \* useNFT argument: TRUE when a signer is passed in
    collection,      \* useState(null): TRUE when the contract instance is set
    collectionInfo,  \* useState(null): "null" or the phase times fetched
    mintPhase,       \* useState(null): "null" or what calculateMintPhase returned
    isMinting,       \* useState(false)
    nftError,        \* useState(null) of useNFT: "null" or the message
    txHash,          \* useState(null): TRUE once a transaction hash is stored
    now,             \* Math.floor(Date.now() / 1000)
    submitted,       \* the mint transactions handed to the wallet so far
    calls,           \* the mint calls suspended at an await
    mintRet,         \* the mint call that last settled and its value
    wallet,          \* the state of useWallet and the accounts MetaMask exposes
    walletTasks      \* the useWallet callbacks suspended at an await

\* the state outside the useMerkle hook
nftVars ==
    <<signer, collection, collectionInfo, mintPhase, isMinting, nftError,
      txHash, now, submitted, calls, mintRet>>

\* the state of the useMerkle hook
hookVars == <<whitelist, isLoading, error, treeData, keccak, hashFault, ret>>

\* the state of the useWallet hook
walletVars == <<wallet, walletTasks>>

elsewhere == <<probe, nftVars, walletVars>>

vars == <<whitelist, isLoading, error, treeData, keccak, hashFault, ret, elsewhere>>

\* ------------------------------------------------------------ tree maths
RECURSIVE bufferCompare(_, _)
\* Buffer.compare(a, b): -1, 0, 1 by the bytes of the two digests
bufferCompare(x, y) ==
    IF x = y THEN 0
    ELSE IF x = ZeroBytes THEN -1
    ELSE IF y = ZeroBytes THEN 1
    ELSE IF x[1] = "L" /\ y[1] = "L"
         THEN IF (x[2] < y[2]) = keccak.leafAsc THEN -1 ELSE 1
    ELSE IF x[1] = "L" THEN (IF keccak.leafFirst THEN -1 ELSE 1)
    ELSE IF y[1] = "L" THEN (IF keccak.leafFirst THEN 1 ELSE -1)
    ELSE LET c == bufferCompare(x[2], y[2])
         IN  IF c # 0 THEN c ELSE bufferCompare(x[3], y[3])

\* sortPair that keeps the pair as given
sortPairAsGiven(a, b) == <<a, b>>

\* sortPair that puts the larger digest first
sortPairDescending(a, b) == IF bufferCompare(a, b) > 0 THEN <<a, b>> ELSE <<b, a>>

sortPair(a, b) == IF bufferCompare(a, b) < 0 THEN <<a, b>> ELSE <<b, a>>

\* hashPair that hashes the pair in the order given
hashPairAsGiven(a, b) == Keccak2(a, b)

hashPair(a, b) ==
    LET pair == sortPair(a, b)
    IN  Keccak2(pair[1], pair[2])

\* the pass that hashes an unpaired last node with itself
nextLayerDuplicatesLast(currentLayer) ==
    LET n == Len(currentLayer)
    IN  [k \in 1..((n + 1) \div 2) |->
            IF 2 * k <= n
            THEN hashPair(currentLayer[2 * k - 1], currentLayer[2 * k])
            ELSE hashPair(currentLayer[2 * k - 1], currentLayer[2 * k - 1])]

\* the pass that leaves an unpaired last node out
nextLayerDropsLast(currentLayer) ==
    LET n == Len(currentLayer)
    IN  IF n = 1 THEN currentLayer
        ELSE [k \in 1..(n \div 2) |->
                 hashPair(currentLayer[2 * k - 1], currentLayer[2 * k])]

\* one pass of the for loop of buildTree over currentLayer
nextLayer(currentLayer) ==
    LET n == Len(currentLayer)
    IN  [k \in 1..((n + 1) \div 2) |->
            IF 2 * k <= n
            THEN hashPair(currentLayer[2 * k - 1], currentLayer[2 * k])
            ELSE currentLayer[2 * k - 1]]

RECURSIVE buildTreeLoop(_)
buildTreeLoop(layers) ==
    IF Len(layers[Len(layers)]) > 1
    THEN buildTreeLoop(Append(layers, nextLayer(layers[Len(layers)])))
    ELSE layers

\* buildTree that takes a single leaf for no tree
buildTreeNeedsTwo(leaves) ==
    IF Len(leaves) <= 1 THEN <<>> ELSE buildTreeLoop(<<leaves>>)

buildTree(leaves) ==
    IF Len(leaves) = 0 THEN <<>> ELSE buildTreeLoop(<<leaves>>)

RECURSIVE getProofLoopKeepsIndex(_, _, _, _)
\* the loop of getProof without the halving of the index
getProofLoopKeepsIndex(layers, i, index, proof) ==
    IF i < Len(layers) - 1
    THEN LET layer == layers[i + 1]
             isRight == index % 2 = 1
             siblingIndex == IF isRight THEN index - 1 ELSE index + 1
             pushed == IF siblingIndex < Len(layer)
                       THEN Append(proof, toHexString(layer[siblingIndex + 1]))
                       ELSE proof
         IN  getProofLoopKeepsIndex(layers, i + 1, index, pushed)
    ELSE proof

RECURSIVE getProofLoop(_, _, _, _)
\* the for loop of getProof; i and index are 0-based as in the source
getProofLoop(layers, i, index, proof) ==
    IF i < Len(layers) - 1
    THEN LET layer == layers[i + 1]
             isRight == index % 2 = 1
             siblingIndex == IF isRight THEN index - 1 ELSE index + 1
             pushed == IF siblingIndex < Len(layer)
                       THEN Append(proof, toHexString(layer[siblingIndex + 1]))
                       ELSE proof
         IN  getProofLoop(layers, i + 1, index \div 2, pushed)
    ELSE proof

\* getProof with its loop started one layer up
getProofSkipsLeafLayer(layers, leafIndex) ==
    IF Len(layers) = 0 THEN <<>> ELSE getProofLoop(layers, 1, leafIndex, <<>>)

getProof(layers, leafIndex) ==
    IF Len(layers) = 0 THEN <<>> ELSE getProofLoop(layers, 0, leafIndex, <<>>)

\* hashAddress throws when the address does not normalise or hashing fails
hashAddressOk(address) == getAddressOk(address) /\ ~hashFault

\* hashAddress that hashes the first account whatever its argument
hashAddressOfFirst(address) == LeafHash(1)

hashAddress(address) == LeafHash(getAddress(address).a)

\* a Set that keeps every element it is given
dedupKeepsAll(list, seen) == list

RECURSIVE dedup(_, _)
\* [...new Set(list)]: first occurrences, in order
dedup(list, seen) ==
    IF list = <<>> THEN <<>>
    ELSE IF Head(list) \in seen THEN dedup(Tail(list), seen)
    ELSE <<Head(list)>> \o dedup(Tail(list), seen \cup {Head(list)})

emptyTreeData ==
    [leaves |-> <<>>, layers |-> <<>>, root |-> ZeroHash,
     addressToIndex |-> [key \in {} |-> 0], addresses |-> <<>>, hasAddresses |-> FALSE]

\* the index that counts positions from one
indexMapFromOne(normalizedAddresses) ==
    [key \in {toLowerCase(normalizedAddresses[i]) :
                 i \in 1..Len(normalizedAddresses)} |->
        CHOOSE i \in 1..Len(normalizedAddresses) :
            toLowerCase(normalizedAddresses[i]) = key]

\* new Map(normalizedAddresses.map((addr, i) => [addr.toLowerCase(), i]))
indexMap(normalizedAddresses) ==
    [key \in {toLowerCase(normalizedAddresses[i]) :
                 i \in 1..Len(normalizedAddresses)} |->
        (CHOOSE i \in 1..Len(normalizedAddresses) :
            /\ toLowerCase(normalizedAddresses[i]) = key
            /\ \A j \in 1..Len(normalizedAddresses) :
                   toLowerCase(normalizedAddresses[j]) = key => j <= i) - 1]

\* the useMemo body with the index built before the duplicates are removed
treeDataOfIndexBeforeDedup(wl) ==
    IF Len(wl) = 0 THEN emptyTreeData
    ELSE IF \E i \in 1..Len(wl) : ~(TrimOk(wl[i]) /\ getAddressOk(trim(wl[i])))
    THEN emptyTreeData
    ELSE LET all == [i \in 1..Len(wl) |-> getAddress(trim(wl[i]))]
             normalizedAddresses == dedup(all, {})
             leaves == [i \in 1..Len(normalizedAddresses) |->
                           hashAddress(normalizedAddresses[i])]
             layers == buildTree(leaves)
         IN  [leaves |-> leaves, layers |-> layers,
              root |-> toHexString(layers[Len(layers)][1]),
              addressToIndex |-> indexMap(all),
              addresses |-> normalizedAddresses,
              hasAddresses |-> TRUE]

\* the useMemo body, for whitelist wl
treeDataOf(wl) ==
    IF Len(wl) = 0 THEN emptyTreeData
    ELSE IF \E i \in 1..Len(wl) : ~(TrimOk(wl[i]) /\ getAddressOk(trim(wl[i])))
    THEN emptyTreeData
    ELSE LET normalizedAddresses ==
                 dedup([i \in 1..Len(wl) |-> getAddress(trim(wl[i]))], {})
         IN  IF \E i \in 1..Len(normalizedAddresses) :
                    ~hashAddressOk(normalizedAddresses[i])
             THEN emptyTreeData
             ELSE LET leaves == [i \in 1..Len(normalizedAddresses) |->
                                    hashAddress(normalizedAddresses[i])]
                      layers == buildTree(leaves)
                      root == IF Len(layers) > 0
                              THEN toHexString(layers[Len(layers)][1])
                              ELSE ZeroHash
                  IN  [leaves |-> leaves, layers |-> layers, root |-> root,
                       addressToIndex |-> indexMap(normalizedAddresses),
                       addresses |-> normalizedAddresses,
                       hasAddresses |-> TRUE]


\* ------------------------------------------------------- the hook's calls
\* validAddresses of loadWhitelist: the entries whose trimmed form normalises
RECURSIVE filterValidUntrimmed(_)
\* the filter without the trim
filterValidUntrimmed(addresses) ==
    IF addresses = <<>> THEN <<>>
    ELSE LET addr == Head(addresses)
         IN  IF getAddressOk(addr)
             THEN <<addr>> \o filterValidUntrimmed(Tail(addresses))
             ELSE filterValidUntrimmed(Tail(addresses))

RECURSIVE filterValid(_)
filterValid(addresses) ==
    IF addresses = <<>> THEN <<>>
    ELSE LET addr == Head(addresses)
         IN  IF TrimOk(addr) /\ getAddressOk(trim(addr))
             THEN <<addr>> \o filterValid(Tail(addresses))
             ELSE filterValid(Tail(addresses))

RECURSIVE filterNonEmpty(_)
filterNonEmpty(tokens) ==
    IF tokens = <<>> THEN <<>>
    ELSE IF Head(tokens).k # "empty"
         THEN <<Head(tokens)>> \o filterNonEmpty(Tail(tokens))
         ELSE filterNonEmpty(Tail(tokens))

\* text.split(/[\n,]/).map(trim).filter(length > 0); a text is kept as the
\* sequence of its tokens between the separators
splitText(text) == filterNonEmpty([i \in 1..Len(text) |-> trim(text[i])])

\* isWhitelisted that looks the lower-cased argument up when it does not
\* normalise
isWhitelistedLenient(address) ==
    IF ~getAddressOk(address)
    THEN address.k # "nonstring"
            /\ toLowerCase(address) \in DOMAIN treeData.addressToIndex
    ELSE toLowerCase(getAddress(address)) \in DOMAIN treeData.addressToIndex

isWhitelisted(address) ==
    IF ~getAddressOk(address) THEN FALSE
    ELSE toLowerCase(getAddress(address)) \in DOMAIN treeData.addressToIndex

\* getProofForAddress that reads a missing index as 0
getProofForAddressDefaultsToZero(address) ==
    IF ~getAddressOk(address) THEN <<>>
    ELSE LET normalized == toLowerCase(getAddress(address))
             index == IF normalized \in DOMAIN treeData.addressToIndex
                      THEN treeData.addressToIndex[normalized]
                      ELSE 0
         IN  getProof(treeData.layers, index)

getProofForAddress(address) ==
    IF ~getAddressOk(address) THEN <<>>
    ELSE LET normalized == toLowerCase(getAddress(address))
         IN  IF normalized \notin DOMAIN treeData.addressToIndex THEN <<>>
             ELSE getProof(treeData.layers, treeData.addressToIndex[normalized])

RECURSIVE foldProof(_, _)
\* the for-of loop of verifyProof
foldProof(hash, proof) ==
    IF proof = <<>> THEN hash
    ELSE foldProof(hashPair(hash, bufferFromHex(Head(proof))), Tail(proof))

\* verifyProof that accepts as soon as the running hash is the root
verifyProofStopsAtRoot(proof, address) ==
    IF ~hashAddressOk(address) THEN FALSE
    ELSE \E n \in 0..Len(proof) :
            toHexString(foldProof(hashAddress(address), SubSeq(proof, 1, n)))
                = treeData.root

verifyProof(proof, address) ==
    IF ~hashAddressOk(address) THEN FALSE
    ELSE toHexString(foldProof(hashAddress(address), proof)) = treeData.root

getMerkleRoot == treeData.root

\* the whitelist field of the hook's return value
hookWhitelist == IF treeData.hasAddresses THEN treeData.addresses ELSE <<>>

getWhitelistCount == IF treeData.hasAddresses THEN Len(treeData.addresses) ELSE 0

\* exportAsJSON that reads the addresses off the whitelist state
exportAsJSONRawAddresses ==
    [addresses |-> whitelist, root |-> treeData.root, count |-> Len(whitelist)]

\* exportAsJSON that counts the entries of the whitelist state
exportAsJSONCountsRaw ==
    [addresses |-> IF treeData.hasAddresses THEN treeData.addresses ELSE <<>>,
     root |-> treeData.root, count |-> Len(whitelist)]

exportAsJSON ==
    [addresses |-> IF treeData.hasAddresses THEN treeData.addresses ELSE <<>>,
     root |-> treeData.root,
     count |-> IF treeData.hasAddresses /\ Len(treeData.addresses) # 0
               THEN Len(treeData.addresses) ELSE 0]

\* addresses.join('\n') or addresses.join(','), as the tokens the text has
\* between its separators: no canonical address holds a separator, and the
\* join of no address is the empty text, whose one token is empty
joinText(addresses) == IF addresses = <<>> THEN <<EmptyStr>> ELSE addresses

\* the standalone generateMerkleRoot(addresses) on an array of entries
generateMerkleRoot(addresses) ==
    IF Len(addresses) = 0 THEN ZeroHash
    ELSE IF \E i \in 1..Len(addresses) :
                ~(TrimOk(addresses[i]) /\ getAddressOk(trim(addresses[i])))
    THEN ZeroHash
    ELSE IF hashFault THEN ZeroHash
    ELSE LET normalized ==
                 dedup([i \in 1..Len(addresses) |->
                           getAddress(trim(addresses[i]))], {})
             leaves == [i \in 1..Len(normalized) |-> LeafHash(normalized[i].a)]
             layers == buildTree(leaves)
         IN  IF Len(layers) > 0
             THEN toHexString(layers[Len(layers)][1])
             ELSE ZeroHash

\* ------------------------------------------------- the on-chain verifier
\* MerkleProof of the collection contract: the sorted-pair walk from
\* keccak256(abi.encodePacked(msg.sender)) over the bytes32[] proof
commutativeKeccak256(a, b) ==
    IF bufferCompare(a, b) < 0 THEN Keccak2(a, b) ELSE Keccak2(b, a)

RECURSIVE processProof(_, _)
processProof(proof, leaf) ==
    IF proof = <<>> THEN leaf
    ELSE processProof(Tail(proof), commutativeKeccak256(leaf, Head(proof)))

merkleProofVerify(proof, root, leaf) == processProof(proof, leaf) = root

\* the bytes32[] the ABI encoder makes of an array of hex strings
toBytes32Array(proof) == [i \in 1..Len(proof) |-> bufferFromHex(proof[i])]

\* what the contract decides for sender a, the published root and a proof
onChainVerify(proof, a) ==
    merkleProofVerify(toBytes32Array(proof), bufferFromHex(treeData.root), LeafHash(a))

\* --------------------------------------------------------- call arguments
RECURSIVE CanonicalLists(_)
\* the lists of at most n distinct accounts, each in canonical form
CanonicalLists(n) ==
    IF n = 0 THEN {<<>>}
    ELSE LET shorter == CanonicalLists(n - 1)
             longest == {r \in shorter : Len(r) = n - 1}
         IN  shorter \cup
             {Append(qa[1], Str("checksum", qa[2])) :
                 qa \in {ra \in longest \X Accounts :
                            \A i \in 1..Len(ra[1]) : ra[1][i].a # ra[2]}}

\* the lists of at most n entries: distinct canonical addresses, and at most
\* one entry of Odd in front of them or after them
ListsWithOne(Odd, n) ==
    CanonicalLists(n) \cup
        {<<e>> \o q : q \in CanonicalLists(n - 1), e \in Odd} \cup
        {Append(q, e) : q \in CanonicalLists(n - 1), e \in Odd}

\* an array holds, besides canonical addresses, a case variant in whitespace,
\* a string that is no address, or a value that is no string
ArrayInputs == ListsWithOne({Str("padded", 1), Garbage, NonString}, MaxLen)

\* a text holds, besides canonical addresses, an address without prefix, a
\* mixed-case address with a wrong checksum, or a blank line
TextInputs ==
    ListsWithOne({Str("noprefix", 2), Str("badsum", 1), BlankStr}, MaxLen) \ {<<>>}

Idle == [op |-> "idle"]

NoProbe == [op |-> "none"]

\* useWallet once its mount effect has run with MetaMask installed: the
\* provider is set, eth_accounts is awaited; 0 stands for null, ethereum is
\* the account MetaMask exposes to the page (0 for none)
MountedWallet ==
    [account |-> 0, provider |-> TRUE, signer |-> 0, isConnecting |-> FALSE,
     error |-> "null", ethereum |-> 0]

\* collectionInfo and mintPhase before the first fetch (null)
NoInfo == [loaded |-> FALSE]
NoPhase == [phase |-> "null"]

\* ------------------------------------------------------------- useNFT
\* The mint side of the useNFT hook: the wallet and contract it is given,
\* the collection info it fetches, the phase it derives from the clock, and
\* the mint calls, which suspend at each await.  userNFTs, userMintCount,
\* isLoading and isApproving take no part in the mint calls and are left out.
MaxTime == 5
MaxCalls == 2

MINT_PHASE ==
    [NOT_STARTED |-> "NOT_STARTED", WHITELIST |-> "WHITELIST",
     BETWEEN_PHASES |-> "BETWEEN_PHASES", PUBLIC |-> "PUBLIC", ENDED |-> "ENDED"]

\* the phase times a collection can have been deployed with: one phase after
\* the other, and a public phase that opens before the whitelist phase ends
Schedules ==
    {[loaded |-> TRUE, whitelistStartTime |-> 1, whitelistEndTime |-> 2,
      publicStartTime |-> 4, publicEndTime |-> 4,
      whitelistMintPriceRaw |-> 1, publicMintPriceRaw |-> 2],
     [loaded |-> TRUE, whitelistStartTime |-> 1, whitelistEndTime |-> 3,
      publicStartTime |-> 2, publicEndTime |-> 4,
      whitelistMintPriceRaw |-> 1, publicMintPriceRaw |-> 2]}

\* calculateMintPhase that looks at the public window first
calculateMintPhasePublicFirst(info, t) ==
    IF t >= info.publicStartTime /\ t <= info.publicEndTime
    THEN [phase |-> MINT_PHASE.PUBLIC,
          nextPhaseTime |-> info.publicEndTime,
          currentPrice |-> info.publicMintPriceRaw]
    ELSE IF t < info.whitelistStartTime
    THEN [phase |-> MINT_PHASE.NOT_STARTED,
          nextPhaseTime |-> info.whitelistStartTime,
          currentPrice |-> info.whitelistMintPriceRaw]
    ELSE IF t >= info.whitelistStartTime /\ t <= info.whitelistEndTime
    THEN [phase |-> MINT_PHASE.WHITELIST,
          nextPhaseTime |-> info.whitelistEndTime,
          currentPrice |-> info.whitelistMintPriceRaw]
    ELSE IF t > info.whitelistEndTime /\ t < info.publicStartTime
    THEN [phase |-> MINT_PHASE.BETWEEN_PHASES,
          nextPhaseTime |-> info.publicStartTime,
          currentPrice |-> info.publicMintPriceRaw]
    ELSE [phase |-> MINT_PHASE.ENDED, nextPhaseTime |-> -1,
          currentPrice |-> info.publicMintPriceRaw]

\* calculateMintPhase(info) at clock t; nextPhaseTime -1 stands for null
calculateMintPhase(info, t) ==
    IF t < info.whitelistStartTime
    THEN [phase |-> MINT_PHASE.NOT_STARTED,
          nextPhaseTime |-> info.whitelistStartTime,
          currentPrice |-> info.whitelistMintPriceRaw]
    ELSE IF t >= info.whitelistStartTime /\ t <= info.whitelistEndTime
    THEN [phase |-> MINT_PHASE.WHITELIST,
          nextPhaseTime |-> info.whitelistEndTime,
          currentPrice |-> info.whitelistMintPriceRaw]
    ELSE IF t > info.whitelistEndTime /\ t < info.publicStartTime
    THEN [phase |-> MINT_PHASE.BETWEEN_PHASES,
          nextPhaseTime |-> info.publicStartTime,
          currentPrice |-> info.publicMintPriceRaw]
    ELSE IF t >= info.publicStartTime /\ t <= info.publicEndTime
    THEN [phase |-> MINT_PHASE.PUBLIC,
          nextPhaseTime |-> info.publicEndTime,
          currentPrice |-> info.publicMintPriceRaw]
    ELSE [phase |-> MINT_PHASE.ENDED, nextPhaseTime |-> -1,
          currentPrice |-> info.publicMintPriceRaw]

\* the proof argument of whitelistMint: null or undefined, [], or an array
\* of at least one element
Proofs == {"missing", "empty", "elements"}

\* !proof alone
noProofOnlyMissing(proof) == proof = "missing"

\* !proof || proof.length === 0
noProof(proof) == proof \in {"missing", "empty"}

\* the messages of the catch of a mint call
MintFailures(kind) ==
    IF kind = "whitelistMint"
    THEN {"Your address is not on the whitelist",
          "You have reached the maximum mint limit", "Minting failed"}
    ELSE {"Minting failed"}

DropCall(c) == [i \in 1..(Len(calls) - 1) |-> IF i < c THEN calls[i] ELSE calls[i + 1]]

\* -------------------------------------------------------------- actions
Init ==
    /\ whitelist = <<>>
    /\ isLoading = FALSE
    /\ error = "null"
    /\ treeData = emptyTreeData
    /\ keccak \in KeccakOrders
    /\ hashFault = FALSE
    /\ ret = Idle
    /\ probe = NoProbe
    /\ signer = FALSE
    /\ collection = FALSE
    /\ collectionInfo = NoInfo
    /\ mintPhase = NoPhase
    /\ isMinting = FALSE
    /\ nftError = "null"
    /\ txHash = FALSE
    /\ now = 0
    /\ submitted = {}
    /\ calls = <<>>
    /\ mintRet = Idle
    /\ wallet = MountedWallet
    /\ walletTasks = <<[op |-> "mount", pc |-> "eth_accounts"]>>

\* loadWhitelist that adds the valid entries to the ones it holds
LoadWhitelistAppends ==
    /\ ret = Idle
    /\ \E addresses \in ArrayInputs :
          /\ whitelist' = whitelist \o filterValid(addresses)
          /\ ret' = [op |-> "loadWhitelist", array |-> TRUE, arg |-> addresses,
                     val |-> TRUE]
    /\ isLoading' = FALSE
    /\ error' = "null"
    /\ treeData' = treeDataOf(whitelist')
    /\ UNCHANGED <<keccak, hashFault, elsewhere>>

\* loadWhitelist(addresses) with an array, and the render that follows
LoadWhitelist ==
    /\ ret = Idle
    /\ \E addresses \in ArrayInputs :
          /\ whitelist' = filterValid(addresses)
          /\ ret' = [op |-> "loadWhitelist", array |-> TRUE, arg |-> addresses,
                     val |-> TRUE]
    /\ isLoading' = FALSE
    /\ error' = "null"
    /\ treeData' = treeDataOf(whitelist')
    /\ UNCHANGED <<keccak, hashFault, elsewhere>>

\* loadWhitelist(null): addresses.filter throws, the catch reports it
LoadWhitelistNotArray ==
    /\ ret = Idle
    /\ isLoading' = FALSE
    /\ error' = "Failed to load whitelist"
    /\ ret' = [op |-> "loadWhitelist", array |-> FALSE, arg |-> <<>>,
               val |-> FALSE]
    /\ UNCHANGED <<whitelist, treeData, keccak, hashFault, elsewhere>>

\* loadWhitelistFromText(text), and the render that follows
LoadWhitelistFromText ==
    /\ ret = Idle
    /\ \E text \in TextInputs :
          /\ whitelist' = filterValid(splitText(text))
          /\ ret' = [op |-> "loadWhitelistFromText", arg |-> text, val |-> TRUE]
    /\ isLoading' = FALSE
    /\ error' = "null"
    /\ treeData' = treeDataOf(whitelist')
    /\ UNCHANGED <<keccak, hashFault, elsewhere>>

\* clearWhitelist(), and the render that follows
ClearWhitelist ==
    /\ ret = Idle
    /\ whitelist' = <<>>
    /\ error' = "null"
    /\ treeData' = treeDataOf(whitelist')
    /\ ret' = [op |-> "clearWhitelist"]
    /\ UNCHANGED <<isLoading, keccak, hashFault, elsewhere>>

\* isWhitelisted that reports an argument it cannot normalise
IsWhitelistedCallReportsError ==
    /\ ret = Idle
    /\ \E address \in RawEntries :
          /\ ret' = [op |-> "isWhitelisted", arg |-> address,
                     val |-> isWhitelisted(address)]
          /\ error' = IF getAddressOk(address) THEN error ELSE "Invalid address"
    /\ UNCHANGED <<whitelist, isLoading, treeData, keccak, hashFault, elsewhere>>

IsWhitelistedCall ==
    /\ ret = Idle
    /\ \E address \in RawEntries :
          ret' = [op |-> "isWhitelisted", arg |-> address,
                  val |-> isWhitelisted(address)]
    /\ UNCHANGED <<whitelist, isLoading, error, treeData, keccak, hashFault, elsewhere>>

GetProofForAddressCall ==
    /\ ret = Idle
    /\ \E address \in RawEntries :
          ret' = [op |-> "getProofForAddress", arg |-> address,
                  val |-> getProofForAddress(address)]
    /\ UNCHANGED <<whitelist, isLoading, error, treeData, keccak, hashFault, elsewhere>>

\* the addresses a verification is tried on
VerifyAddresses ==
    {Str("checksum", a) : a \in Accounts} \cup {Str("padded", 1), Garbage}

\* ways a caller may alter an issued proof before handing it to verifyProof
Reverse(p) == [i \in 1..Len(p) |-> p[Len(p) + 1 - i]]

DropAt(p, i) == SubSeq(p, 1, i - 1) \o SubSeq(p, i + 1, Len(p))

InsertAt(p, i, h) == SubSeq(p, 1, i - 1) \o <<h>> \o SubSeq(p, i, Len(p))

ReplaceAt(p, i, h) == [p EXCEPT ![i] = h]

\* a sample of them: the proof itself, reversed, cut, lengthened, one element
\* replaced
SampleProofs(p) ==
    {p, Reverse(p), Append(p, ZeroHash), <<toHexString(LeafHash(1))>> \o p}
        \cup (IF p = <<>> THEN {}
              ELSE {Tail(p), ReplaceAt(p, 1, toHexString(LeafHash(NumAddr)))})

VerifyProofCall ==
    /\ ret = Idle
    /\ \E issuedTo \in {Str("checksum", a) : a \in Accounts},
          address \in VerifyAddresses :
          \E proof \in SampleProofs(getProofForAddress(issuedTo)) :
             ret' = [op |-> "verifyProof", proof |-> proof, arg |-> address,
                     val |-> verifyProof(proof, address)]
    /\ UNCHANGED <<whitelist, isLoading, error, treeData, keccak, hashFault, elsewhere>>

GetMerkleRootCall ==
    /\ ret = Idle
    /\ ret' = [op |-> "getMerkleRoot", val |-> getMerkleRoot]
    /\ UNCHANGED <<whitelist, isLoading, error, treeData, keccak, hashFault, elsewhere>>

GetWhitelistCountCall ==
    /\ ret = Idle
    /\ ret' = [op |-> "getWhitelistCount", val |-> getWhitelistCount]
    /\ UNCHANGED <<whitelist, isLoading, error, treeData, keccak, hashFault, elsewhere>>

ExportAsJSONCall ==
    /\ ret = Idle
    /\ ret' = [op |-> "exportAsJSON", val |-> exportAsJSON]
    /\ UNCHANGED <<whitelist, isLoading, error, treeData, keccak, hashFault, elsewhere>>

\* the caller joins the addresses of the export it holds and loads the text
ReloadExported ==
    /\ ret.op = "exportAsJSON"
    /\ LET text == joinText(ret.val.addresses)
       IN  /\ whitelist' = filterValid(splitText(text))
           /\ ret' = [op |-> "reloadExported", arg |-> text, val |-> TRUE,
                      exported |-> ret.val]
    /\ isLoading' = FALSE
    /\ error' = "null"
    /\ treeData' = treeDataOf(whitelist')
    /\ UNCHANGED <<keccak, hashFault, elsewhere>>

\* the caller takes the returned value; the hook is ready for the next call
Return ==
    /\ ret # Idle
    /\ ret' = Idle
    /\ UNCHANGED <<whitelist, isLoading, error, treeData, keccak, hashFault, elsewhere>>

Next ==
    \/ LoadWhitelist
    \/ LoadWhitelistNotArray
    \/ LoadWhitelistFromText
    \/ ClearWhitelist
    \/ IsWhitelistedCall
    \/ GetProofForAddressCall
    \/ VerifyProofCall
    \/ GetMerkleRootCall
    \/ GetWhitelistCountCall
    \/ ExportAsJSONCall
    \/ ReloadExported
    \/ Return

Spec == Init /\ [][Next]_vars

\* ------------------------------------------------- hashing that can fail
\* The try/catch of the memo covers a failure of normalisation, hashing or
\* tree construction.  No entry the loads accept makes them fail; what can is
\* the environment (the Buffer global missing, a broken hashing library).
HashingBreaks ==
    /\ ret = Idle
    /\ ~hashFault
    /\ hashFault' = TRUE
    /\ UNCHANGED <<whitelist, isLoading, error, treeData, keccak, ret, elsewhere>>

HashingRecovers ==
    /\ ret = Idle
    /\ hashFault
    /\ hashFault' = FALSE
    /\ UNCHANGED <<whitelist, isLoading, error, treeData, keccak, ret, elsewhere>>

NextFault ==
    \/ Next
    \/ HashingBreaks
    \/ HashingRecovers

SpecFault == Init /\ [][NextFault]_vars

\* ------------------------------------------- the tree functions by hand
\* buildTree, getProof and hashPair applied to digests directly, as the
\* standalone generateMerkleRoot and generateMerkleProof apply them
MaxLeaves == 6

\* leaf lists of every length up to MaxLeaves, in each rotation
LeafLists ==
    {<<>>} \cup
    {[i \in 1..n |-> LeafHash(((i + r) % n) + 1)] :
        n \in 1..MaxLeaves, r \in 0..(MaxLeaves - 1)}

\* digests of each shape: the zero word, leaves, and nodes over them
Digests ==
    {ZeroBytes} \cup {LeafHash(a) : a \in 1..3}
        \cup {Keccak2(LeafHash(1), LeafHash(2)), Keccak2(LeafHash(2), LeafHash(1)),
              Keccak2(Keccak2(LeafHash(1), LeafHash(2)), LeafHash(3)),
              Keccak2(LeafHash(3), Keccak2(LeafHash(1), LeafHash(2)))}

BuildTreeApplied ==
    /\ \E leaves \in LeafLists :
          probe' = [op |-> "buildTree", leaves |-> leaves,
                    layers |-> buildTree(leaves)]
    /\ UNCHANGED <<hookVars, nftVars, walletVars>>

GetProofApplied ==
    /\ probe.op \in {"buildTree", "getProof"}
    /\ \E leafIndex \in 0..(IF Len(probe.leaves) = 0 THEN 0
                            ELSE Len(probe.leaves) - 1) :
          probe' = [op |-> "getProof", leaves |-> probe.leaves,
                    layers |-> probe.layers, leafIndex |-> leafIndex,
                    proof |-> getProof(probe.layers, leafIndex)]
    /\ UNCHANGED <<hookVars, nftVars, walletVars>>

HashPairApplied ==
    /\ \E a, b \in Digests :
          probe' = [op |-> "hashPair", a |-> a, b |-> b,
                    ab |-> hashPair(a, b), ba |-> hashPair(b, a)]
    /\ UNCHANGED <<hookVars, nftVars, walletVars>>

NextTree ==
    \/ BuildTreeApplied
    \/ GetProofApplied
    \/ HashPairApplied

SpecTree == Init /\ [][NextTree]_vars

\* ------------------------------------------------- the useNFT actions
\* the guards with the phase test of canMint: either mint in either open phase
mintGuardEitherPhase(kind, proof) ==
    IF ~signer \/ ~collection THEN "Please connect your wallet"
    ELSE IF ~collectionInfo.loaded THEN "Collection info not loaded"
    ELSE IF mintPhase.phase \notin {MINT_PHASE.WHITELIST, MINT_PHASE.PUBLIC}
    THEN "Mint is not active"
    ELSE IF kind = "whitelistMint" /\ noProof(proof)
    THEN "Invalid whitelist proof - you may not be whitelisted"
    ELSE "null"

\* the guards of a mint call in the order of the source: the message of the
\* first that fails, "null" when the call goes on to its try block
mintGuard(kind, proof) ==
    IF ~signer \/ ~collection THEN "Please connect your wallet"
    ELSE IF ~collectionInfo.loaded THEN "Collection info not loaded"
    ELSE IF kind = "publicMint" /\ mintPhase.phase # MINT_PHASE.PUBLIC
    THEN "Public mint is not active"
    ELSE IF kind = "whitelistMint" /\ mintPhase.phase # MINT_PHASE.WHITELIST
    THEN "Whitelist mint is not active"
    ELSE IF kind = "whitelistMint" /\ noProof(proof)
    THEN "Invalid whitelist proof - you may not be whitelisted"
    ELSE "null"

\* a mint call up to its first await: an early return, or the try block
\* entered and the call suspended at signer.getAddress()
MintCalled(kind, proof) ==
    /\ mintRet = Idle
    /\ LET refusal == mintGuard(kind, proof)
       IN  IF refusal # "null"
           THEN /\ nftError' = refusal
                /\ mintRet' = [op |-> kind, proof |-> proof, val |-> "null"]
                /\ UNCHANGED <<isMinting, calls>>
           ELSE /\ Len(calls) < MaxCalls
                /\ isMinting' = TRUE
                /\ nftError' = "null"
                /\ calls' = Append(calls, [op |-> kind, proof |-> proof,
                                           pc |-> "getAddress"])
                /\ UNCHANGED mintRet
    /\ UNCHANGED <<signer, collection, collectionInfo, mintPhase, txHash, now,
                   submitted, hookVars, probe, walletVars>>

WhitelistMint == \E proof \in Proofs : MintCalled("whitelistMint", proof)

\* publicMint takes no proof
PublicMint == MintCalled("publicMint", "missing")

\* getAddress has resolved and the wallet has accepted the transaction
MintSent ==
    /\ mintRet = Idle
    /\ \E c \in 1..Len(calls) :
          /\ calls[c].pc = "getAddress"
          /\ submitted' = submitted \cup {[op |-> calls[c].op, proof |-> calls[c].proof]}
          /\ calls' = [calls EXCEPT ![c].pc = "wait"]
    /\ txHash' = TRUE
    /\ UNCHANGED <<signer, collection, collectionInfo, mintPhase, isMinting,
                   nftError, now, mintRet, hookVars, probe, walletVars>>

\* tx.wait() has resolved with the receipt; the call awaits the refresh
MintMined ==
    /\ mintRet = Idle
    /\ \E c \in 1..Len(calls) :
          /\ calls[c].pc = "wait"
          /\ calls' = [calls EXCEPT ![c].pc = "refresh"]
    /\ UNCHANGED <<signer, collection, collectionInfo, mintPhase, isMinting,
                   nftError, txHash, now, submitted, mintRet, hookVars, probe, walletVars>>

\* what fetchCollectionInfo leaves: the info and the phase on success, the
\* message on failure
fetchCollectionInfoLeaves ==
    \/ \E info \in Schedules :
          /\ collectionInfo' = info
          /\ mintPhase' = calculateMintPhase(info, now)
          /\ nftError' = "null"
    \/ /\ nftError' = "Failed to load collection"
       /\ UNCHANGED <<collectionInfo, mintPhase>>

\* the refresh has resolved: the call returns its result, finally runs
MintReturned ==
    /\ mintRet = Idle
    /\ \E c \in 1..Len(calls) :
          /\ calls[c].pc = "refresh"
          /\ mintRet' = [op |-> calls[c].op, proof |-> calls[c].proof,
                         val |-> "minted"]
          /\ calls' = DropCall(c)
    /\ fetchCollectionInfoLeaves
    /\ isMinting' = FALSE
    /\ UNCHANGED <<signer, collection, txHash, now, submitted, hookVars, probe, walletVars>>

\* an await of the try block has thrown (the wallet refused, the contract
\* reverted, the network failed): catch sets the message, finally runs
MintFailed ==
    /\ mintRet = Idle
    /\ \E c \in 1..Len(calls) :
          /\ calls[c].pc \in {"getAddress", "wait"}
          /\ nftError' \in MintFailures(calls[c].op)
          /\ mintRet' = [op |-> calls[c].op, proof |-> calls[c].proof,
                         val |-> "null"]
          /\ calls' = DropCall(c)
    /\ isMinting' = FALSE
    /\ UNCHANGED <<signer, collection, collectionInfo, mintPhase, txHash, now,
                   submitted, hookVars, probe, walletVars>>

\* the caller has the value of the settled call
MintReturn ==
    /\ mintRet # Idle
    /\ mintRet' = Idle
    /\ UNCHANGED <<signer, collection, collectionInfo, mintPhase, isMinting,
                   nftError, txHash, now, submitted, calls, hookVars, probe, walletVars>>

\* fetchCollectionInfo(), on mount and on demand
FetchCollectionInfo ==
    /\ mintRet = Idle
    /\ collection
    /\ fetchCollectionInfoLeaves
    /\ UNCHANGED <<signer, collection, isMinting, txHash, now, submitted,
                   calls, mintRet, hookVars, probe, walletVars>>

\* the interval of one second
PhaseInterval ==
    /\ mintRet = Idle
    /\ collectionInfo.loaded
    /\ mintPhase' = calculateMintPhase(collectionInfo, now)
    /\ UNCHANGED <<signer, collection, collectionInfo, isMinting, nftError,
                   txHash, now, submitted, calls, mintRet, hookVars, probe, walletVars>>

ClockTick ==
    /\ mintRet = Idle
    /\ now < MaxTime
    /\ now' = now + 1
    /\ UNCHANGED <<signer, collection, collectionInfo, mintPhase, isMinting,
                   nftError, txHash, submitted, calls, mintRet, hookVars, probe, walletVars>>

\* the wallet connects or disconnects: the signer argument changes
SignerChanges ==
    /\ mintRet = Idle
    /\ signer' = ~signer
    /\ UNCHANGED <<collection, collectionInfo, mintPhase, isMinting, nftError,
                   txHash, now, submitted, calls, mintRet, hookVars, probe, walletVars>>

\* the effect on collectionAddress and provider sets or clears the contract
CollectionChanges ==
    /\ mintRet = Idle
    /\ collection' = ~collection
    /\ UNCHANGED <<signer, collectionInfo, mintPhase, isMinting, nftError,
                   txHash, now, submitted, calls, mintRet, hookVars, probe, walletVars>>

NextNFT ==
    \/ WhitelistMint
    \/ PublicMint
    \/ MintSent
    \/ MintMined
    \/ MintReturned
    \/ MintFailed
    \/ MintReturn
    \/ FetchCollectionInfo
    \/ PhaseInterval
    \/ ClockTick
    \/ SignerChanges
    \/ CollectionChanges

SpecNFT == Init /\ [][NextNFT]_vars

\* ------------------------------------------------ the phase calculators
\* useMintPhase beside calculateMintPhase of useNFT, applied to the same
\* collection info at the same clock
MaxStamp == 3

\* the prices a collection can have
Prices == {1, 2}

\* collection info with its four times in any order
Infos ==
    {[loaded |-> TRUE, whitelistStartTime |-> ws, whitelistEndTime |-> we,
      publicStartTime |-> ps, publicEndTime |-> pe,
      whitelistMintPriceRaw |-> wp, publicMintPriceRaw |-> pp] :
        ws \in 0..MaxStamp, we \in 0..MaxStamp, ps \in 0..MaxStamp,
        pe \in 0..MaxStamp, wp \in Prices, pp \in Prices}

\* the clock runs to just past the last time
Clock == 0..(MaxStamp + 1)

NoCountdown == [set |-> FALSE]

\* formatCountdown(seconds); the formatted text is the three parts it shows
formatCountdown(seconds) ==
    IF seconds <= 0 THEN NoCountdown
    ELSE LET days == seconds \div 86400
             hours == (seconds % 86400) \div 3600
             minutes == (seconds % 3600) \div 60
             secs == seconds % 60
         IN  [set |-> TRUE, days |-> days, hours |-> hours, minutes |-> minutes,
              seconds |-> secs, total |-> seconds,
              formatted |-> IF days > 0 THEN <<days, hours, minutes>>
                            ELSE IF hours > 0 THEN <<hours, minutes, secs>>
                            ELSE <<minutes, secs>>]

\* updatePhaseAndCountdown that ends each window one second early
updatePhaseAndCountdownEndsEarly(info, t) ==
    IF ~info.loaded
    THEN [currentPhase |-> MINT_PHASE.NOT_STARTED, countdown |-> NoCountdown]
    ELSE IF t < info.whitelistStartTime
    THEN [currentPhase |-> MINT_PHASE.NOT_STARTED,
          countdown |-> formatCountdown(info.whitelistStartTime - t)]
    ELSE IF t >= info.whitelistStartTime /\ t < info.whitelistEndTime
    THEN [currentPhase |-> MINT_PHASE.WHITELIST,
          countdown |-> formatCountdown(info.whitelistEndTime - t)]
    ELSE IF t >= info.whitelistEndTime /\ t < info.publicStartTime
    THEN [currentPhase |-> MINT_PHASE.BETWEEN_PHASES,
          countdown |-> formatCountdown(info.publicStartTime - t)]
    ELSE IF t >= info.publicStartTime /\ t < info.publicEndTime
    THEN [currentPhase |-> MINT_PHASE.PUBLIC,
          countdown |-> formatCountdown(info.publicEndTime - t)]
    ELSE [currentPhase |-> MINT_PHASE.ENDED, countdown |-> NoCountdown]

\* updatePhaseAndCountdown() of useMintPhase(info) at clock t: what it sets
updatePhaseAndCountdown(info, t) ==
    IF ~info.loaded
    THEN [currentPhase |-> MINT_PHASE.NOT_STARTED, countdown |-> NoCountdown]
    ELSE IF t < info.whitelistStartTime
    THEN [currentPhase |-> MINT_PHASE.NOT_STARTED,
          countdown |-> formatCountdown(info.whitelistStartTime - t)]
    ELSE IF t >= info.whitelistStartTime /\ t <= info.whitelistEndTime
    THEN [currentPhase |-> MINT_PHASE.WHITELIST,
          countdown |-> formatCountdown(info.whitelistEndTime - t)]
    ELSE IF t > info.whitelistEndTime /\ t < info.publicStartTime
    THEN [currentPhase |-> MINT_PHASE.BETWEEN_PHASES,
          countdown |-> formatCountdown(info.publicStartTime - t)]
    ELSE IF t >= info.publicStartTime /\ t <= info.publicEndTime
    THEN [currentPhase |-> MINT_PHASE.PUBLIC,
          countdown |-> formatCountdown(info.publicEndTime - t)]
    ELSE [currentPhase |-> MINT_PHASE.ENDED, countdown |-> NoCountdown]

\* the currentPrice memo of useMintPhase, for loaded info: its raw field
currentPrice(info, currentPhase) ==
    IF currentPhase = MINT_PHASE.WHITELIST
    THEN [raw |-> info.whitelistMintPriceRaw, label |-> "Whitelist Price"]
    ELSE [raw |-> info.publicMintPriceRaw, label |-> "Public Price"]

\* both hooks given info at clock t
BothHooksAt(info, t) ==
    LET set == updatePhaseAndCountdown(info, t)
    IN  [op |-> "mintPhase", info |-> info, t |-> t,
         mintPhase |-> calculateMintPhase(info, t),
         currentPhase |-> set.currentPhase, countdown |-> set.countdown,
         currentPrice |-> currentPrice(info, set.currentPhase)]

\* the collection info arrives and both hooks compute their phase
PhasesCalculated ==
    /\ probe = NoProbe
    /\ \E info \in Infos, t \in Clock : probe' = BothHooksAt(info, t)
    /\ UNCHANGED <<hookVars, nftVars, walletVars>>

\* the intervals of both hooks fire at a later second, the info unchanged
PhasesRecalculated ==
    /\ probe.op = "mintPhase"
    /\ \E t \in Clock :
          /\ t > probe.t
          /\ probe' = BothHooksAt(probe.info, t)
    /\ UNCHANGED <<hookVars, nftVars, walletVars>>

NextPhase ==
    \/ PhasesCalculated
    \/ PhasesRecalculated

SpecPhase == Init /\ [][NextPhase]_vars

\* ------------------------------------------------------------ useWallet
\* The useWallet hook with MetaMask installed: connect, disconnect and the
\* accountsChanged handler, each suspended at its awaits.  chainId and the
\* page reload on chainChanged take no part in account and signer and are
\* left out.
MaxTasks == 2

\* the accounts of the MetaMask user
WalletAccounts == {1, 2}

DropTask(k) ==
    [i \in 1..(Len(walletTasks) - 1) |->
        IF i < k THEN walletTasks[i] ELSE walletTasks[i + 1]]

\* connect() up to its first await
Connect ==
    /\ Len(walletTasks) < MaxTasks
    /\ wallet' = [wallet EXCEPT !.isConnecting = TRUE, !.error = "null"]
    /\ walletTasks' = Append(walletTasks, [op |-> "connect",
                                           pc |-> "eth_requestAccounts"])
    /\ UNCHANGED <<hookVars, probe, nftVars>>

\* eth_requestAccounts resolves: the user has approved an account, which
\* connect stores before it awaits getSigner
ConnectApproved ==
    /\ \E k \in 1..Len(walletTasks), a \in WalletAccounts :
          /\ walletTasks[k] = [op |-> "connect", pc |-> "eth_requestAccounts"]
          /\ wallet.ethereum \in {0, a}
          /\ wallet' = [wallet EXCEPT !.ethereum = a, !.account = a,
                                      !.provider = TRUE]
          /\ walletTasks' = [walletTasks EXCEPT ![k].pc = "getSigner"]
    /\ UNCHANGED <<hookVars, probe, nftVars>>

\* an await of connect rejects: catch sets the error, finally runs
ConnectFailed ==
    /\ \E k \in 1..Len(walletTasks) :
          /\ walletTasks[k].op = "connect"
          /\ walletTasks[k].pc \in {"eth_requestAccounts", "getSigner"}
          /\ walletTasks' = DropTask(k)
    /\ wallet' = [wallet EXCEPT !.isConnecting = FALSE,
                                !.error = "Failed to connect wallet"]
    /\ UNCHANGED <<hookVars, probe, nftVars>>

\* getSigner resolves in connect, in the accountsChanged handler or in the
\* mount effect: the signer of the exposed account is stored
GotSigner ==
    /\ wallet.ethereum # 0
    /\ \E k \in 1..Len(walletTasks) :
          /\ walletTasks[k].pc = "getSigner"
          /\ walletTasks' =
                 IF walletTasks[k].op = "connect"
                 THEN [walletTasks EXCEPT ![k].pc = "switchToArcTestnet"]
                 ELSE DropTask(k)
    /\ wallet' = [wallet EXCEPT !.signer = wallet.ethereum]
    /\ UNCHANGED <<hookVars, probe, nftVars>>

\* getSigner rejects in the handler or in the mount effect: nothing is set
GetSignerFailed ==
    /\ \E k \in 1..Len(walletTasks) :
          /\ walletTasks[k].op \in {"accountsChanged", "mount"}
          /\ walletTasks[k].pc = "getSigner"
          /\ walletTasks' = DropTask(k)
    /\ UNCHANGED <<wallet, hookVars, probe, nftVars>>

\* switchToArcTestnet settles (it catches its own errors): finally runs
ConnectDone ==
    /\ \E k \in 1..Len(walletTasks) :
          /\ walletTasks[k] = [op |-> "connect", pc |-> "switchToArcTestnet"]
          /\ walletTasks' = DropTask(k)
    /\ wallet' = [wallet EXCEPT !.isConnecting = FALSE]
    /\ UNCHANGED <<hookVars, probe, nftVars>>

\* disconnect()
Disconnect ==
    /\ wallet' = [wallet EXCEPT !.account = 0, !.signer = 0]
    /\ UNCHANGED <<walletTasks, hookVars, probe, nftVars>>

\* MetaMask exposes another account, or none, and handleAccountsChanged runs
\* up to its await
AccountsChanged ==
    /\ \E a \in {0} \cup WalletAccounts :
          /\ a # wallet.ethereum
          /\ IF a = 0
             THEN /\ wallet' = [wallet EXCEPT !.ethereum = 0, !.account = 0,
                                              !.signer = 0]
                  /\ UNCHANGED walletTasks
             ELSE /\ Len(walletTasks) < MaxTasks
                  /\ wallet' = [wallet EXCEPT !.ethereum = a, !.account = a]
                  /\ walletTasks' =
                         IF wallet.provider
                         THEN Append(walletTasks, [op |-> "accountsChanged",
                                                   pc |-> "getSigner"])
                         ELSE walletTasks
    /\ UNCHANGED <<hookVars, probe, nftVars>>

\* eth_accounts of the mount effect resolves
MountAccounts ==
    /\ \E k \in 1..Len(walletTasks) :
          /\ walletTasks[k] = [op |-> "mount", pc |-> "eth_accounts"]
          /\ IF wallet.ethereum # 0
             THEN /\ wallet' = [wallet EXCEPT !.account = wallet.ethereum]
                  /\ walletTasks' = [walletTasks EXCEPT ![k].pc = "getSigner"]
             ELSE /\ walletTasks' = DropTask(k)
                  /\ UNCHANGED wallet
    /\ UNCHANGED <<hookVars, probe, nftVars>>

NextWallet ==
    \/ Connect
    \/ ConnectApproved
    \/ ConnectFailed
    \/ GotSigner
    \/ GetSignerFailed
    \/ ConnectDone
    \/ Disconnect
    \/ AccountsChanged
    \/ MountAccounts

SpecWallet == Init /\ [][NextWallet]_vars

\* ------------------------------------------------------------ the claims
\* the hook between two calls: every state of the engine a caller can meet
AtRest == ret = Idle

\* e is a textual form, good as an argument, of an account of the loaded list
Loaded(e) ==
    /\ e.k \in ValidKinds
    /\ \E i \in 1..Len(whitelist) : whitelist[i].a = e.a

LoadedAccounts == {whitelist[i].a : i \in 1..Len(whitelist)}

Canon(a) == Str("checksum", a)

\* the hash values a forged proof element is taken from: the nodes of the
\* tree, the leaf of every account, the pair hashes of leaves, the zero word
TreeNodes ==
    {treeData.layers[i][j] :
        <<i, j>> \in {ij \in (1..Len(treeData.layers)) \X (1..NumAddr) :
                        ij[2] <= Len(treeData.layers[ij[1]])}}

HashPool ==
    TreeNodes \cup {LeafHash(a) : a \in Accounts} \cup {ZeroBytes}
        \cup {hashPair(LeafHash(a), LeafHash(b)) : a, b \in Accounts}

\* C1: every proof issued for a member of the built tree verifies against the
\* current root, for lists of every size (one address, odd sizes) and every
\* textual form of the member's address.
C1_IssuedProofsVerify ==
    /\ AtRest =>
          \A e \in RawEntries :
             Loaded(e) => verifyProof(getProofForAddress(e), e)
    /\ (ret.op = "verifyProof" /\ Loaded(ret.arg)
           /\ ret.proof = getProofForAddress(ret.arg)) => ret.val = TRUE

C1_Witness ==
    /\ ret.op = "verifyProof"
    /\ Loaded(ret.arg)
    /\ ret.proof = getProofForAddress(ret.arg)
    /\ ret.val = TRUE
    /\ Len(treeData.leaves) = 3
    /\ treeData.addressToIndex[toLowerCase(ret.arg)] = 2

\* the rearrangements of a list
Rearrangements(list) ==
    {[i \in 1..Len(list) |-> list[f[i]]] : f \in Permutations(1..Len(list))}

\* C2 as stated: the root does not depend on the order of the loaded list,
\* whatever its size (checked for the hook's memo and for generateMerkleRoot).
C2_RootOrderInvariant ==
    AtRest =>
       \A P \in Rearrangements(whitelist) :
          /\ treeDataOf(P).root = treeData.root
          /\ generateMerkleRoot(P) = treeData.root

\* C2 as amended: the root does not depend on the order of the loaded list
\* when the list holds at most two distinct addresses.
C2_RootOrderInvariantUpToTwo ==
    (AtRest /\ Cardinality(LoadedAccounts) <= 2) =>
       \A P \in Rearrangements(whitelist) :
          /\ treeDataOf(P).root = treeData.root
          /\ generateMerkleRoot(P) = treeData.root

C2_Witness ==
    /\ ret.op = "getMerkleRoot"
    /\ Cardinality(LoadedAccounts) = 2
    /\ Len(whitelist) = 3
    /\ \E P \in Rearrangements(whitelist) :
          /\ treeDataOf(P).addresses # treeData.addresses
          /\ treeDataOf(P).root = ret.val

\* C3: an address that is not in the loaded list is not whitelisted and gets
\* the empty proof, in the Empty and in the Built state; so does every
\* argument that is no address at all.
C3_NonMembersRejected ==
    /\ AtRest =>
          \A b \in RawEntries :
             ~Loaded(b) => (~isWhitelisted(b) /\ getProofForAddress(b) = <<>>)
    /\ (ret.op = "isWhitelisted" /\ ~Loaded(ret.arg)) => ret.val = FALSE
    /\ (ret.op = "getProofForAddress" /\ ~Loaded(ret.arg)) => ret.val = <<>>

C3_Witness ==
    /\ ret.op = "getProofForAddress"
    /\ ret.arg.k = "checksum"
    /\ ~Loaded(ret.arg)
    /\ ret.val = <<>>
    /\ Len(treeData.leaves) = 2

\* C4: verifyProof rejects an address that is not in the loaded list, with the
\* empty proof and with every proof issued to a member.
C4_NonMemberNeverVerifies ==
    /\ AtRest =>
          \A b \in RawEntries :
             ~Loaded(b) =>
                /\ ~verifyProof(<<>>, b)
                /\ \A m \in RawEntries :
                      Loaded(m) => ~verifyProof(getProofForAddress(m), b)
    /\ (/\ ret.op = "verifyProof"
        /\ ~Loaded(ret.arg)
        /\ \/ ret.proof = <<>>
           \/ \E m \in RawEntries : Loaded(m) /\ ret.proof = getProofForAddress(m))
       => ret.val = FALSE

C4_Witness ==
    /\ ret.op = "verifyProof"
    /\ ret.arg.k = "checksum"
    /\ ~Loaded(ret.arg)
    /\ ret.proof # <<>>
    /\ \E m \in RawEntries : Loaded(m) /\ ret.proof = getProofForAddress(m)
    /\ ret.val = FALSE

\* the proofs that differ from p by one reordering, one dropped element, one
\* added hash value or one replaced hash value
Tampered(p) ==
    (Rearrangements(p) \ {p})
        \cup {DropAt(p, i) : i \in 1..Len(p)}
        \cup {InsertAt(p, i, toHexString(h)) : i \in 1..(Len(p) + 1), h \in HashPool}
        \cup {ReplaceAt(p, ih[1], toHexString(ih[2])) :
                 ih \in {x \in (1..Len(p)) \X HashPool :
                            x[2] # bufferFromHex(p[x[1]])}}

\* C5: a member's issued proof no longer verifies for that member once its
\* elements are reordered, one is dropped, one is added or one is replaced
\* by another hash value.
C5_TamperedProofRejected ==
    /\ AtRest =>
          \A a \in LoadedAccounts :
             \A q \in Tampered(getProofForAddress(Canon(a))) :
                ~verifyProof(q, Canon(a))
    /\ (/\ ret.op = "verifyProof"
        /\ Loaded(ret.arg)
        /\ ret.proof \in Tampered(getProofForAddress(ret.arg)))
       => ret.val = FALSE

C5_Witness ==
    /\ ret.op = "verifyProof"
    /\ Loaded(ret.arg)
    /\ Len(getProofForAddress(ret.arg)) = 2
    /\ ret.proof = Reverse(getProofForAddress(ret.arg))
    /\ ret.proof # getProofForAddress(ret.arg)
    /\ ret.val = FALSE

\* C6: the contract's sorted-pair walk accepts every proof the engine issues
\* to a member against the root the engine publishes, and decides as the
\* client-side verifyProof does on every proof and address.
C6_OnChainVerifierAgrees ==
    AtRest =>
       \A a \in Accounts :
          /\ a \in LoadedAccounts =>
                onChainVerify(getProofForAddress(Canon(a)), a)
          /\ \A b \in Accounts :
                \A q \in SampleProofs(getProofForAddress(Canon(b))) :
                   verifyProof(q, Canon(a)) = onChainVerify(q, a)

C6_Witness ==
    /\ ret.op = "verifyProof"
    /\ Loaded(ret.arg)
    /\ ret.val = TRUE
    /\ Len(ret.proof) = 2
    /\ onChainVerify(ret.proof, ret.arg.a)
    /\ bufferCompare(LeafHash(ret.arg.a), bufferFromHex(ret.proof[1])) > 0

\* the engine's data after loading an array, and after loading a text
afterLoad(addresses) == treeDataOf(filterValid(addresses))

afterLoadText(text) == treeDataOf(filterValid(splitText(text)))

\* the strings that trim to a well-formed address
Accepted(e) == e.k \in ValidKinds \cup {"padded"}

\* the ways to write an entry again: every accepted form of the same account,
\* or the entry itself when it is no address
Repeats(e) ==
    IF Accepted(e)
    THEN {Str(k, e.a) : k \in ValidKinds \cup {"padded"}}
    ELSE {e}

SameTree(td) ==
    /\ Len(td.leaves) = Len(treeData.leaves)
    /\ td.addresses = treeData.addresses
    /\ td.root = treeData.root

\* C7: an input followed by a repeat of one of its entries, in any letter case
\* or accepted form, loads to the same leaf count, the same address order
\* (first occurrence kept) and the same root as the input alone.
C7_DuplicatesCollapse ==
    /\ (ret.op = "loadWhitelist" /\ ret.array) =>
          \A i \in 1..Len(ret.arg) :
             \A v \in Repeats(ret.arg[i]) :
                SameTree(afterLoad(Append(ret.arg, v)))
    /\ ret.op = "loadWhitelistFromText" =>
          \A i \in 1..Len(ret.arg) :
             \A v \in Repeats(ret.arg[i]) \ {NonString} :
                SameTree(afterLoadText(Append(ret.arg, v)))

C7_Witness ==
    /\ ret.op = "loadWhitelist"
    /\ ret.array
    /\ Len(ret.arg) = 3
    /\ ret.arg[3] = Str("padded", 1)
    /\ ret.arg[2] = Canon(1)
    /\ treeData.addresses = <<Canon(2), Canon(1)>>
    /\ Len(treeData.leaves) = 2
    /\ treeData.root = afterLoad(SubSeq(ret.arg, 1, 2)).root

\* the accounts an input names in an accepted form
AcceptedAccounts(input) ==
    {input[i].a : i \in {j \in 1..Len(input) : Accepted(input[j])}}

FirstAt(input, a) ==
    CHOOSE i \in 1..Len(input) :
        /\ Accepted(input[i]) /\ input[i].a = a
        /\ \A j \in 1..(i - 1) : ~(Accepted(input[j]) /\ input[j].a = a)

\* addrs is the accepted entries of input: canonical, once each, in the order
\* of their first occurrence
IsCleanListOf(addrs, input) ==
    /\ {addrs[i].a : i \in 1..Len(addrs)} = AcceptedAccounts(input)
    /\ \A i \in 1..Len(addrs) : addrs[i].k = "checksum"
    /\ \A i, j \in 1..Len(addrs) :
          i < j => FirstAt(input, addrs[i].a) < FirstAt(input, addrs[j].a)

\* C8: a load of a list that mixes well-formed and malformed entries returns
\* true and sets no error; the loaded set is the well-formed entries,
\* normalised, once each, in first-occurrence order; getWhitelistCount is the
\* number of distinct well-formed addresses of the input.
C8_MalformedEntriesDropped ==
    ((ret.op = "loadWhitelist" /\ ret.array) \/ ret.op = "loadWhitelistFromText")
    => /\ ret.val = TRUE
       /\ error = "null"
       /\ IsCleanListOf(hookWhitelist, ret.arg)
       /\ getWhitelistCount = Cardinality(AcceptedAccounts(ret.arg))

C8_Witness ==
    /\ ret.op = "loadWhitelist"
    /\ ret.array
    /\ Len(ret.arg) = 3
    /\ ret.arg[1] \in {Garbage, NonString}
    /\ ret.val = TRUE
    /\ getWhitelistCount = 2
    /\ hookWhitelist = <<ret.arg[2], ret.arg[3]>>

\* the proofs tried against an empty engine: at most two hash values
EmptyStateProofs ==
    {<<>>} \cup {<<toHexString(h)>> : h \in HashPool}
           \cup {<<toHexString(g), toHexString(h)>> : g, h \in HashPool}

\* C9: with no valid address loaded (initially, after clearWhitelist, after a
\* load of an empty or all-invalid list) the root is the zero root, there are
\* no layers and every query is negative; and the root is the zero root only
\* when no valid address is loaded.
C9_EmptyStateIsZeroRoot ==
    /\ whitelist = <<>> =>
          /\ getMerkleRoot = ZeroHash
          /\ treeData.layers = <<>>
          /\ \A x \in RawEntries :
                /\ ~isWhitelisted(x)
                /\ getProofForAddress(x) = <<>>
                /\ \A q \in EmptyStateProofs : ~verifyProof(q, x)
    /\ getMerkleRoot = ZeroHash => whitelist = <<>>
    /\ ret.op = "clearWhitelist" => whitelist = <<>>
    /\ ((ret.op = "loadWhitelist" /\ ret.array) \/ ret.op = "loadWhitelistFromText")
          => (AcceptedAccounts(ret.arg) = {} <=> getMerkleRoot = ZeroHash)

C9_Witness ==
    /\ ret.op = "loadWhitelist"
    /\ ret.array
    /\ Len(ret.arg) = 1
    /\ ret.arg[1] = Garbage
    /\ getMerkleRoot = ZeroHash
    /\ treeData.layers = <<>>
    /\ error = "null"

\* C10: when tree construction fails during the rebuild a load sets off, the
\* caller gets a failure signal (the load returns false or sets an error) and
\* the tree built before stays in effect.
C10_FailedRebuildKeepsTree ==
    [][(/\ hashFault
        /\ ret'.op \in {"loadWhitelist", "loadWhitelistFromText"}
        /\ ret'.op = "loadWhitelist" => ret'.array
        /\ whitelist' # <<>>)
       => (/\ treeData' = treeData
           /\ (ret'.val = FALSE \/ error' # "null"))]_vars


\* ------------------------------------------------------------------ C11
\* what a tree record is when every part of it comes from the one address
\* list it exports
OneList(td) ==
    LET addrs == IF td.hasAddresses THEN td.addresses ELSE <<>>
        n == Len(addrs)
    IN  /\ td.leaves = [i \in 1..n |-> LeafHash(addrs[i].a)]
        /\ td.layers = buildTree(td.leaves)
        /\ td.root = IF n = 0 THEN ZeroHash
                     ELSE toHexString(td.layers[Len(td.layers)][1])
        /\ DOMAIN td.addressToIndex = {toLowerCase(addrs[i]) : i \in 1..n}
        /\ \A i \in 1..n : td.addressToIndex[toLowerCase(addrs[i])] = i - 1

\* C11: after any sequence of loadWhitelist, loadWhitelistFromText and
\* clearWhitelist the leaves, the layers, the root and the address index are
\* all those of the exported address list, that list is the one made of the
\* whitelist last stored, and a membership query answers for that same list
C11_OneListBehindEverything ==
    /\ AtRest => OneList(treeData) /\ treeData = treeDataOf(whitelist)
    /\ (ret.op = "isWhitelisted" /\ getAddressOk(ret.arg)) =>
           (ret.val <=> \E i \in 1..Len(hookWhitelist) :
                            hookWhitelist[i].a = getAddress(ret.arg).a)

\* a load whose input repeats an address has built the tree of two addresses
C11_Witness ==
    /\ ret.op \in {"loadWhitelist", "loadWhitelistFromText"}
    /\ Len(ret.arg) > Len(hookWhitelist)
    /\ Len(hookWhitelist) = 2
    /\ error = "null"


\* ------------------------------------------------------------------ C12
\* C12: an export whose addresses are joined into a text and loaded again
\* with loadWhitelistFromText leaves an engine whose export is the one the
\* text was made of: the same root, the same address list, the same count
C12_ExportReloadRoundTrip ==
    ret.op = "reloadExported" =>
        /\ exportAsJSON = ret.exported
        /\ getMerkleRoot = ret.exported.root
        /\ hookWhitelist = ret.exported.addresses
        /\ getWhitelistCount = ret.exported.count

\* the export of two addresses is joined and loaded again
C12_Witness ==
    /\ ret.op = "reloadExported"
    /\ ret.exported.count = 2
    /\ Len(ret.arg) = 2
    /\ whitelist = ret.exported.addresses

\* ------------------------------------------------------------------ C17
\* C17: in every state the export record has count equal to the length of
\* its address list, addresses that are canonical, pairwise distinct and in
\* the order of their first occurrence in the loaded list, and the root that
\* getMerkleRoot returns; in the Empty state that is the zero root, no
\* address and count 0
C17_ExportSelfConsistent ==
    LET e == exportAsJSON
    IN  /\ e.count = Len(e.addresses)
        /\ e.root = getMerkleRoot
        /\ \A i \in 1..Len(e.addresses) : e.addresses[i].k = "checksum"
        /\ \A i, j \in 1..Len(e.addresses) :
               e.addresses[i] = e.addresses[j] => i = j
        /\ AtRest =>
              /\ {e.addresses[i].a : i \in 1..Len(e.addresses)}
                     = {whitelist[i].a : i \in 1..Len(whitelist)}
              /\ \A i, j \in 1..Len(e.addresses) :
                     i < j => FirstAt(whitelist, e.addresses[i].a)
                                  < FirstAt(whitelist, e.addresses[j].a)
        /\ e.addresses = <<>> => e.root = ZeroHash /\ e.count = 0
        /\ ret.op = "exportAsJSON" => ret.val = e

\* an export is taken of a tree built of a list that repeated an address
C17_Witness ==
    /\ ret.op = "exportAsJSON"
    /\ ret.val.count = 2
    /\ Len(whitelist) = 3
    /\ ret.val.root # ZeroHash


\* ------------------------------------------------------------------ C14
\* C14: isWhitelisted and getProofForAddress called with an argument that
\* does not normalise (malformed hex, wrong length, padded, not a string)
\* return false and the empty proof, as values and not as exceptions, and
\* leave the whitelist, the tree, the error and the loading flag as they were
C14_QueriesFailClosed ==
    [][(ret'.op \in {"isWhitelisted", "getProofForAddress"}
            /\ ~getAddressOk(ret'.arg)) =>
          /\ ret'.op = "isWhitelisted" => ret'.val = FALSE
          /\ ret'.op = "getProofForAddress" => ret'.val = <<>>
          /\ UNCHANGED <<whitelist, treeData, error, isLoading>>]_vars

\* a member's address with a wrong checksum is asked for after a load
C14_Witness ==
    /\ ret.op \in {"isWhitelisted", "getProofForAddress"}
    /\ ret.arg.k = "badsum"
    /\ \E i \in 1..Len(hookWhitelist) : hookWhitelist[i].a = ret.arg.a
    /\ Len(hookWhitelist) = 2

\* ------------------------------------------------------------------ C15
\* the value a query returned is the value the same query returns now
SameAnswerAgain ==
    /\ ret.op = "isWhitelisted" => ret.val = isWhitelisted(ret.arg)
    /\ ret.op = "getProofForAddress" => ret.val = getProofForAddress(ret.arg)
    /\ ret.op = "verifyProof" => ret.val = verifyProof(ret.proof, ret.arg)

\* C15: isWhitelisted, getProofForAddress and verifyProof change neither the
\* whitelist, the root, the layers, the index, the error nor the loading
\* flag, and the same call made again on the tree they leave returns the
\* same result
C15_QueriesReadOnly ==
    [][ret'.op \in {"isWhitelisted", "getProofForAddress", "verifyProof"} =>
          /\ UNCHANGED <<whitelist, treeData, error, isLoading>>
          /\ SameAnswerAgain']_vars

\* a proof of a member was verified against a tree of three addresses
C15_Witness ==
    /\ ret.op = "verifyProof"
    /\ ret.val = TRUE
    /\ Len(ret.proof) = 2
    /\ Len(hookWhitelist) = 3


\* ------------------------------------------------------------------ C16
Last(seq) == seq[Len(seq)]

\* C16: a layer of odd length above one hands its last node unchanged to the
\* next layer as that layer's last node; the root over three leaves is
\* hashPair(hashPair(leaf1, leaf2), leaf3), and the proof of each of the
\* three leaves folds to that root
C16_OddNodePromoted ==
    /\ probe.op \in {"buildTree", "getProof"} =>
          /\ \A l \in 1..(Len(probe.layers) - 1) :
                 (Len(probe.layers[l]) % 2 = 1 /\ Len(probe.layers[l]) > 1) =>
                     Last(probe.layers[l + 1]) = Last(probe.layers[l])
          /\ Len(probe.leaves) = 3 =>
                 Last(probe.layers) =
                     <<hashPair(hashPair(probe.leaves[1], probe.leaves[2]),
                                probe.leaves[3])>>
    /\ (probe.op = "getProof" /\ Len(probe.leaves) = 3) =>
           foldProof(probe.leaves[probe.leafIndex + 1], probe.proof)
               = hashPair(hashPair(probe.leaves[1], probe.leaves[2]),
                          probe.leaves[3])

\* the proof of the promoted third leaf of three: one element, the node over
\* the first two
C16_Witness ==
    /\ probe.op = "getProof"
    /\ Len(probe.leaves) = 3
    /\ probe.leafIndex = 2
    /\ probe.proof = <<toHexString(hashPair(probe.leaves[1], probe.leaves[2]))>>

\* ------------------------------------------------------------------ C18
\* index XOR 1
XorOne(index) == IF index % 2 = 0 THEN index + 1 ELSE index - 1

\* the 0-based levels below the top at which the path from leaf i has a sibling
SiblingLevels(layers, i) ==
    {l \in 0..(Len(layers) - 2) : XorOne(i \div (2 ^ l)) < Len(layers[l + 1])}

\* C18: the proof of the leaf at index i lists, lowest level first, the node
\* at index (idx XOR 1) of each layer below the top, idx being i halved once
\* per level; exactly the levels whose sibling index is past the end of the
\* layer contribute nothing; the proof is no longer than the layers less one
C18_ProofIsSiblingsBottomUp ==
    probe.op = "getProof" /\ probe.leaves # <<>> =>
        LET levels == SiblingLevels(probe.layers, probe.leafIndex)
        IN  /\ Len(probe.proof) = Cardinality(levels)
            /\ Len(probe.proof) <= Len(probe.layers) - 1
            /\ \A l \in levels :
                   probe.proof[Cardinality({m \in levels : m <= l})] =
                       toHexString(probe.layers[l + 1]
                           [XorOne(probe.leafIndex \div (2 ^ l)) + 1])

\* the proof of the last of five leaves: nothing from the leaf layer, nothing
\* from the layer of three, then the node over the first four
C18_Witness ==
    /\ probe.op = "getProof"
    /\ Len(probe.leaves) = 5
    /\ probe.leafIndex = 4
    /\ Len(probe.layers) = 4
    /\ Len(probe.proof) = 1
    /\ probe.proof[1] = toHexString(probe.layers[3][1])

\* ------------------------------------------------------------------ C19
\* C19: buildTree of a non-empty leaf list returns layers whose first is the
\* leaf list, each further one of ceil(n / 2) nodes for the n below it, only
\* the last of one node; a single leaf gives the one layer holding it, and
\* the root is that leaf
C19_LayersHalveToOne ==
    probe.op = "buildTree" /\ probe.leaves # <<>> =>
        /\ probe.layers[1] = probe.leaves
        /\ \A l \in 1..(Len(probe.layers) - 1) :
               /\ Len(probe.layers[l]) > 1
               /\ Len(probe.layers[l + 1]) = (Len(probe.layers[l]) + 1) \div 2
        /\ Len(Last(probe.layers)) = 1
        /\ Len(probe.leaves) = 1 =>
               /\ probe.layers = <<probe.leaves>>
               /\ Last(probe.layers)[1] = probe.leaves[1]

\* six leaves: layers of six, three, two and one
C19_Witness ==
    /\ probe.op = "buildTree"
    /\ Len(probe.leaves) = 6
    /\ [l \in 1..Len(probe.layers) |-> Len(probe.layers[l])] = <<6, 3, 2, 1>>

\* ------------------------------------------------------------------ C20
\* the smaller and the larger of two digests under Buffer.compare
MinDigest(a, b) == IF bufferCompare(a, b) <= 0 THEN a ELSE b
MaxDigest(a, b) == IF bufferCompare(a, b) <= 0 THEN b ELSE a

\* C20: hashPair(a, b) and hashPair(b, a) are the same digest, the keccak256
\* of the smaller operand followed by the larger, also when a = b
C20_HashPairCommutes ==
    probe.op = "hashPair" =>
        /\ probe.ab = probe.ba
        /\ probe.ab = Keccak2(MinDigest(probe.a, probe.b),
                              MaxDigest(probe.a, probe.b))

\* a pair given larger operand first is hashed smaller operand first
C20_Witness ==
    /\ probe.op = "hashPair"
    /\ bufferCompare(probe.a, probe.b) > 0
    /\ probe.ab = Keccak2(probe.b, probe.a)
    /\ probe.a[1] = "N"


\* ------------------------------------------------------------------ C13
\* no whitelist mint is under way or was submitted without proof elements
NoEmptyProofUnderWay ==
    /\ \A c \in 1..Len(calls) :
           calls[c].op = "whitelistMint" => calls[c].proof = "elements"
    /\ \A tx \in submitted : tx.op = "whitelistMint" => tx.proof = "elements"

\* C13: in every phase and wallet state whitelistMint called with a missing
\* or an empty proof returns null at once with an error set, suspends at no
\* await, submits no transaction and leaves isMinting as it was; so no
\* whitelist mint is ever under way or submitted without proof elements
C13_EmptyProofNeverSubmitted ==
    [][/\ NoEmptyProofUnderWay'
       /\ (mintRet = Idle /\ mintRet'.op = "whitelistMint"
               /\ mintRet'.proof \in {"missing", "empty"}) =>
             /\ mintRet'.val = "null"
             /\ nftError' # "null"
             /\ UNCHANGED <<isMinting, submitted, calls, txHash>>]_vars

\* an empty proof is refused in the whitelist phase with a wallet connected
\* and the info loaded, while another mint is under way
C13_Witness ==
    /\ mintRet.op = "whitelistMint"
    /\ mintRet.proof = "empty"
    /\ signer /\ collection /\ collectionInfo.loaded
    /\ mintPhase.phase = MINT_PHASE.WHITELIST
    /\ nftError = "Invalid whitelist proof - you may not be whitelisted"
    /\ isMinting


\* ------------------------------------------------------------------ C21
\* C21: in every Built state the address index maps the lower-case form of
\* the address at position i of the de-duplicated list to i, one to one onto
\* the positions 0..n-1, and the leaf at position i of layer 0 is the hash
\* of that address
C21_IndexIsBijection ==
    (AtRest /\ treeData.hasAddresses /\ treeData.addresses # <<>>) =>
        LET addrs == treeData.addresses
            n == Len(addrs)
            index == treeData.addressToIndex
        IN  /\ Cardinality(DOMAIN index) = n
            /\ {index[key] : key \in DOMAIN index} = 0..(n - 1)
            /\ \A i \in 1..n :
                   /\ toLowerCase(addrs[i]) \in DOMAIN index
                   /\ index[toLowerCase(addrs[i])] = i - 1
                   /\ treeData.layers[1][i] = hashAddress(addrs[i])
            /\ \A key \in DOMAIN index : key.k = "lower"

\* a tree of three addresses built of a list that gave one of them in
\* another spelling
C21_Witness ==
    /\ AtRest
    /\ treeData.hasAddresses
    /\ Len(treeData.addresses) = 3
    /\ \E i \in 1..Len(whitelist) : whitelist[i].k # "checksum"
    /\ treeData.addressToIndex[toLowerCase(treeData.addresses[3])] = 2


\* ------------------------------------------------------------------ C22
\* the tree a fresh engine holds after the one call r
FreshAfter(r) ==
    IF r.op = "loadWhitelist"
    THEN (IF r.array THEN treeDataOf(filterValid(r.arg)) ELSE emptyTreeData)
    ELSE IF r.op \in {"loadWhitelistFromText", "reloadExported"}
    THEN treeDataOf(filterValid(splitText(r.arg)))
    ELSE emptyTreeData

LoadsAndClears ==
    {"loadWhitelist", "loadWhitelistFromText", "reloadExported", "clearWhitelist"}

\* C22 as stated: after each loadWhitelist, loadWhitelistFromText and
\* clearWhitelist call the addresses, root, layers and index are those of a
\* fresh engine after that call alone
C22_LastCallAlone ==
    ret.op \in LoadsAndClears => treeData = FreshAfter(ret)

\* C22, amended: a load or clear that succeeds leaves the addresses, root,
\* layers and index of a fresh engine after that call alone, nothing of the
\* earlier loads; a load that fails (its argument is no array) leaves the
\* tree of the last call that succeeded
C22_LastSuccessfulCallAlone ==
    [][ret'.op \in LoadsAndClears =>
          IF ret'.op = "loadWhitelist" /\ ~ret'.array
          THEN treeData' = treeData /\ whitelist' = whitelist
          ELSE treeData' = FreshAfter(ret')]_vars

\* a load that failed after one that built a tree of two addresses
C22_Witness ==
    /\ ret.op = "loadWhitelist"
    /\ ~ret.array
    /\ ret.val = FALSE
    /\ Len(hookWhitelist) = 2
    /\ getMerkleRoot # ZeroHash


\* ------------------------------------------------------------------ C23
\* C23: in every state, for every address, isWhitelisted is true exactly
\* when getProofForAddress returns a proof with elements, the proof that the
\* check of whitelistMint (noProof) lets through
C23_MembershipIffProof ==
    AtRest =>
        \A address \in RawEntries :
            isWhitelisted(address) <=>
                (getProofForAddress(address) # <<>>
                    /\ ~noProof(IF getProofForAddress(address) = <<>>
                                THEN "empty" ELSE "elements"))


\* ------------------------------------------------------------------ C24
\* C24: the standalone generateMerkleRoot applied to a list returns the root
\* the hook holds after loadWhitelist of that list, also when the list has
\* malformed entries beside valid ones
C24_StandaloneRootIsHookRoot ==
    (ret.op = "loadWhitelist" /\ ret.array) =>
        generateMerkleRoot(ret.arg) = getMerkleRoot


\* ------------------------------------------------------------------ C25
\* the phase in which a mint of this kind is let through
PhaseOf(kind) ==
    IF kind = "publicMint" THEN MINT_PHASE.PUBLIC ELSE MINT_PHASE.WHITELIST

\* the hook has a signer, a contract, loaded info and the phase of the kind
MayMint(kind) ==
    /\ signer /\ collection /\ collectionInfo.loaded
    /\ mintPhase.phase = PhaseOf(kind)

\* C25 as stated: a transaction of publicMint is submitted only while the
\* hook has a signer, a contract, loaded info and mintPhase PUBLIC, one of
\* whitelistMint only while it has them and mintPhase WHITELIST
C25_SubmittedOnlyInMatchingPhase ==
    [][submitted' # submitted =>
          \E c \in 1..Len(calls) :
              /\ calls[c].pc = "getAddress"
              /\ submitted' = submitted \cup
                     {[op |-> calls[c].op, proof |-> calls[c].proof]}
              /\ MayMint(calls[c].op)]_vars

\* C25, amended: a mint call goes on towards a transaction only when, as it is called,
\* the hook has a signer, a contract, loaded info and mintPhase is PUBLIC for
\* publicMint, WHITELIST for whitelistMint; called in any other state it
\* returns null at once with an error set and submits nothing; and the only
\* transactions submitted are those of calls that went on, whatever the phase
\* and the wallet have become while the call was suspended
C25_MintOnlyInMatchingPhase ==
    [][/\ Len(calls') > Len(calls) =>
             /\ MayMint(calls'[Len(calls')].op)
             /\ UNCHANGED <<submitted, mintRet>>
       /\ (mintRet = Idle /\ mintRet'.op \in {"publicMint", "whitelistMint"}
               /\ Len(calls') = Len(calls)) =>
             /\ ~MayMint(mintRet'.op) \/ noProof(mintRet'.proof)
             /\ mintRet'.val = "null"
             /\ nftError' # "null"
             /\ UNCHANGED <<submitted, calls, isMinting, txHash>>
       /\ submitted' # submitted =>
             \E c \in 1..Len(calls) :
                 /\ calls[c].pc = "getAddress"
                 /\ submitted' = submitted \cup
                        {[op |-> calls[c].op, proof |-> calls[c].proof]}]_vars

\* publicMint is refused in the whitelist phase, wallet connected and info
\* loaded, after a whitelist mint was submitted in that phase
C25_Witness ==
    /\ mintRet.op = "publicMint"
    /\ mintRet.val = "null"
    /\ nftError = "Public mint is not active"
    /\ signer /\ collection /\ collectionInfo.loaded
    /\ mintPhase.phase = MINT_PHASE.WHITELIST
    /\ [op |-> "whitelistMint", proof |-> "elements"] \in submitted
    /\ [op |-> "publicMint", proof |-> "missing"] \notin submitted


\* ------------------------------------------------------------------ C26
\* the place of a phase in the order NOT_STARTED, WHITELIST, BETWEEN_PHASES,
\* PUBLIC, ENDED
PhaseRank(phase) ==
    CASE phase = MINT_PHASE.NOT_STARTED -> 0
      [] phase = MINT_PHASE.WHITELIST -> 1
      [] phase = MINT_PHASE.BETWEEN_PHASES -> 2
      [] phase = MINT_PHASE.PUBLIC -> 3
      [] phase = MINT_PHASE.ENDED -> 4

FivePhases ==
    {MINT_PHASE.NOT_STARTED, MINT_PHASE.WHITELIST, MINT_PHASE.BETWEEN_PHASES,
     MINT_PHASE.PUBLIC, MINT_PHASE.ENDED}

\* C26: whatever the order of the four times, calculateMintPhase returns one
\* of the five phases at each clock value, and at a later clock value on the
\* same info a phase that is not earlier in the order; after ENDED, ENDED
C26_PhaseNeverMovesBack ==
    [][probe'.op = "mintPhase" =>
          /\ probe'.mintPhase.phase \in FivePhases
          /\ (probe.op = "mintPhase" /\ probe'.info = probe.info
                  /\ probe'.t > probe.t) =>
                /\ PhaseRank(probe'.mintPhase.phase)
                       >= PhaseRank(probe.mintPhase.phase)
                /\ probe.mintPhase.phase = MINT_PHASE.ENDED =>
                       probe'.mintPhase.phase = MINT_PHASE.ENDED]_vars

\* times out of order: the public window lies before the whitelist window
\* and the phase is ENDED right after the whitelist window
C26_Witness ==
    /\ probe.op = "mintPhase"
    /\ probe.info.publicEndTime < probe.info.whitelistStartTime
    /\ probe.info.whitelistStartTime < probe.info.whitelistEndTime
    /\ probe.t = probe.info.whitelistEndTime + 1
    /\ probe.mintPhase.phase = MINT_PHASE.ENDED


\* ------------------------------------------------------------------ C27
\* C27: on the same collection info at the same clock updatePhaseAndCountdown
\* sets the phase calculateMintPhase returns, and counts down to its
\* nextPhaseTime: the countdown is null exactly when that time is absent or
\* not after the clock, and otherwise its total is the seconds until it
C27_CalculatorsAgree ==
    probe.op = "mintPhase" =>
        LET target == probe.mintPhase.nextPhaseTime
        IN  /\ probe.currentPhase = probe.mintPhase.phase
            /\ (probe.countdown = NoCountdown) <=>
                   (target = -1 \/ target <= probe.t)
            /\ probe.countdown # NoCountdown =>
                   /\ probe.countdown.total = target - probe.t
                   /\ probe.countdown.seconds = (target - probe.t) % 60

\* the last second of the whitelist window: both say WHITELIST, the target
\* is now and the countdown is null
C27_Witness ==
    /\ probe.op = "mintPhase"
    /\ probe.t = probe.info.whitelistEndTime
    /\ probe.currentPhase = MINT_PHASE.WHITELIST
    /\ probe.mintPhase.nextPhaseTime = probe.t
    /\ probe.countdown = NoCountdown

\* ------------------------------------------------------------------ C28
\* C28: on the same collection info at the same clock the raw price of
\* currentPrice of useMintPhase is the currentPrice calculateMintPhase
\* returns, in each of the five phases
C28_SameCurrentPrice ==
    probe.op = "mintPhase" =>
        probe.currentPrice.raw = probe.mintPhase.currentPrice


\* ------------------------------------------------------------------ C29
\* C29: isMinting is true while any mint call that entered its try block has
\* not yet settled, however the calls overlap, and false when none is under
\* way
C29_IsMintingWhilePending ==
    isMinting <=> calls # <<>>


\* ------------------------------------------------------------------ C30
\* C30: in every state of useWallet, whatever the order of connect,
\* disconnect and accountsChanged and wherever they meet an awaited
\* getSigner, a signer is held only while an account is held
C30_SignerOnlyWithAccount ==
    wallet.signer # 0 => wallet.account # 0

====
